---- MODULE Spec2Model ----
(***************************************************************************)
(* Collaborative drawing canvas: the server's operation log                *)
(* (server/drawing-state.js), the room registry (server/room.js) and the   *)
(* socket handlers (server/server.js); the browser page's WebSocketClient   *)
(* (client/websocket.js) and its wiring (client/main.js).                  *)
(*                                                                         *)
(* One action per socket event handler; a handler runs to completion       *)
(* (Node's event loop), so each action is the whole handler, including the *)
(* registry calls it makes and the messages it emits.                      *)
(***************************************************************************)
EXTENDS Integers, Sequences, FiniteSets, TLC

(***************************************************************************)
(* Bounds of the model.                                                    *)
(***************************************************************************)
NSockets == 2      \* connections (socket ids)
NRooms == 2        \* room identifiers clients may name
MaxOps == 3        \* commit, undo and redo events handled
MaxOpsRoom == 4    \* commit, undo and redo events handled when every client names room r1
MaxTime == 1       \* largest value Date.now() reaches
MaxCrafted == 1    \* stroke-complete payloads that carry a field canvas.js never sends
MaxOpsSolo == 6    \* commit, undo and redo events handled when one client is alone
MaxOpsCanvas == 5  \* commit, undo and redo events handled when every payload is canvas.js's

NPages == 2        \* browser pages running main.js
MaxClicks == 2     \* clicks on the Join button, all pages together
MaxSegments == 2   \* segments the canvases hand to emitStrokePoint, all pages together

SocketNames == <<"s1", "s2", "s3", "s4">>
PageNames == <<"p1", "p2", "p3", "p4">>
RoomNames == <<"r1", "r2", "r3", "r4">>
Sockets == {SocketNames[i] : i \in 1..NSockets}
RoomIds == {RoomNames[i] : i \in 1..NRooms}
Pages == {PageNames[i] : i \in 1..NPages}
UserNames == {"ann", "bob"}    \* what a user may type as username

NoRoom == ""       \* socket.roomId is undefined
NoSocket == ""     \* socket.id is undefined

VARIABLES
    rooms,       \* RoomManager.rooms: roomId -> [users, operations]
    socketRoom,  \* socket.roomId of each connection
    sioRooms,    \* socket.io room membership of each connection (socket.join)
    conn,        \* "open" from the connection event to the disconnect event, then "closed"
    now,         \* Date.now()
    nextId,      \* the next value uuid() returns
    crafted,     \* number of crafted payloads received so far
    emitted,     \* the messages the last handler emitted, in order
    status,        \* page: state of ws.socket (idle, connecting, connected, disconnected)
    sock,          \* page: socket.id, the connection the page's socket is
    listeners,     \* page: the "connection" listeners the Join clicks added, each with its room and name
    pendingBatch,  \* page: ws.pendingBatch
    batchInterval, \* page: ws.batchInterval is set
    outbox,        \* page: messages the socket emitted that the server has not handled
    inbox,         \* page: messages emitted to the page's connection that it has not handled
    preview,       \* page: the segments handed to canvas.drawTemp
    nextSeg        \* the next segment a canvas produces

\* the server's state and the pages' state
svars == <<rooms, socketRoom, sioRooms, conn, now, nextId, crafted, emitted>>

cvars == <<status, sock, listeners, pendingBatch, batchInterval, outbox, inbox, preview, nextSeg>>

vars == <<rooms, socketRoom, sioRooms, conn, now, nextId, crafted, emitted,
          status, sock, listeners, pendingBatch, batchInterval, outbox, inbox, preview, nextSeg>>

(***************************************************************************)
(* Operations.  A field the object does not have is the absent value of    *)
(* its type.                                                               *)
(***************************************************************************)
AbsentVal ==
    [id |-> 0, userId |-> "", roomId |-> "", type |-> "", timestamp |-> -1,
     inverseOf |-> 0, redoOf |-> 0, points |-> ""]

\* { ...base, ...p }: a field present in p overrides the field of base
Spread(base, p) ==
    [f \in DOMAIN base |-> IF p[f] = AbsentVal[f] THEN base[f] ELSE p[f]]

\* canvas.js pointerUp: { tool, color, width, points }
CanvasPayload == [AbsentVal EXCEPT !.points = "pts"]

\* what any client may send as the stroke-complete payload: each one has at
\* most one field besides the ones canvas.js sends (an undo/redo forgery
\* needs its target field as well), or lacks the points
CraftedPayloads(ids) ==
    {[CanvasPayload EXCEPT !.id = i] : i \in ids}
    \cup {[CanvasPayload EXCEPT !.userId = u] : u \in Sockets}
    \cup {[CanvasPayload EXCEPT !.roomId = r] : r \in RoomIds}
    \cup {[CanvasPayload EXCEPT !.timestamp = t] : t \in 0..MaxTime}
    \cup {[CanvasPayload EXCEPT !.type = "undo", !.inverseOf = i] : i \in ids}
    \cup {[CanvasPayload EXCEPT !.type = "redo", !.redoOf = i] : i \in ids}
    \cup {AbsentVal}

(***************************************************************************)
(* DrawingState                                                            *)
(***************************************************************************)
\* addOperation putting the operation at the front of the list (unshift)
addOperationUnshift(operations, roomId, op, userId, id, t) ==
    <<Spread([AbsentVal EXCEPT !.id = id, !.userId = userId, !.roomId = roomId,
                               !.type = "stroke", !.timestamp = t],
             op)>> \o operations

\* addOperation(op, userId): the new operations list; the operation returned
\* is its last element
addOperation(operations, roomId, op, userId, id, t) ==
    Append(operations,
           Spread([AbsentVal EXCEPT !.id = id, !.userId = userId, !.roomId = roomId,
                                    !.type = "stroke", !.timestamp = t],
                  op))

\* the backward scan of undoOwn: index of the last operation that is a stroke
\* of userId, 0 if there is none
undoOwnScan(operations, userId) ==
    LET hits == {i \in 1..Len(operations) :
                    operations[i].type = "stroke" /\ operations[i].userId = userId}
    IN IF hits = {} THEN 0 ELSE CHOOSE i \in hits : \A j \in hits : j <= i

\* undoOwn writing the inverse over the stroke it found instead of pushing it
undoOwnOverwriting(operations, roomId, userId, id, t) ==
    LET i == undoOwnScan(operations, userId)
    IN IF i = 0 THEN operations
       ELSE [operations EXCEPT ![i] =
                [AbsentVal EXCEPT !.id = id, !.userId = userId, !.roomId = roomId,
                                  !.type = "undo", !.inverseOf = operations[i].id,
                                  !.timestamp = t]]

\* undoOwn(userId): the new operations list (unchanged when it returns null)
undoOwn(operations, roomId, userId, id, t) ==
    LET i == undoOwnScan(operations, userId)
    IN IF i = 0 THEN operations
       ELSE Append(operations,
                   [AbsentVal EXCEPT !.id = id, !.userId = userId, !.roomId = roomId,
                                     !.type = "undo", !.inverseOf = operations[i].id,
                                     !.timestamp = t])

\* the backward scan of redoOwn: index of the last undo of userId, 0 if none
redoOwnScan(operations, userId) ==
    LET hits == {i \in 1..Len(operations) :
                    operations[i].type = "undo" /\ operations[i].userId = userId}
    IN IF hits = {} THEN 0 ELSE CHOOSE i \in hits : \A j \in hits : j <= i

\* redoOwn(userId): the new operations list (unchanged when it returns null)
redoOwn(operations, roomId, userId, id, t) ==
    LET i == redoOwnScan(operations, userId)
    IN IF i = 0 THEN operations
       ELSE Append(operations,
                   [AbsentVal EXCEPT !.id = id, !.userId = userId, !.roomId = roomId,
                                     !.type = "redo", !.redoOf = operations[i].inverseOf,
                                     !.timestamp = t])

\* Map.prototype.set on a Map kept as the sequence of its values in insertion
\* order (the key of a value is its id): an existing key keeps its position
MapSet(m, v) ==
    IF \E i \in 1..Len(m) : m[i].id = v.id
    THEN [i \in 1..Len(m) |-> IF m[i].id = v.id THEN v ELSE m[i]]
    ELSE Append(m, v)

\* Map.prototype.delete
MapDelete(m, k) == SelectSeq(m, LAMBDA v : v.id # k)

\* this.operations.find((o) => o.id === k): <<the first match>>, or <<>>
FindById(operations, k) ==
    LET hits == {i \in 1..Len(operations) : operations[i].id = k}
    IN IF hits = {} THEN <<>>
       ELSE <<operations[CHOOSE i \in hits : \A j \in hits : i <= j]>>

\* the loop of getActiveOperations over the first n operations
RECURSIVE ActiveMap(_, _)
ActiveMap(operations, n) ==
    IF n = 0 THEN <<>>
    ELSE LET m == ActiveMap(operations, n - 1)
             op == operations[n]
         IN CASE op.type = "stroke" -> MapSet(m, op)
              [] op.type = "undo" -> MapDelete(m, op.inverseOf)
              [] op.type = "redo" ->
                    LET original == FindById(operations, op.redoOf)
                    IN IF original # <<>> THEN MapSet(m, original[1]) ELSE m
              [] OTHER -> m

\* Array.prototype.sort((a, b) => a.timestamp - b.timestamp): a stable sort
RECURSIVE InsertByTimestamp(_, _)
InsertByTimestamp(sorted, v) ==
    IF sorted = <<>> THEN <<v>>
    ELSE IF sorted[Len(sorted)].timestamp - v.timestamp <= 0
         THEN Append(sorted, v)
         ELSE Append(InsertByTimestamp(SubSeq(sorted, 1, Len(sorted) - 1), v),
                     sorted[Len(sorted)])

RECURSIVE SortByTimestamp(_)
SortByTimestamp(s) ==
    IF s = <<>> THEN <<>>
    ELSE InsertByTimestamp(SortByTimestamp(SubSeq(s, 1, Len(s) - 1)), s[Len(s)])

\* getActiveOperations returning the Map's values in insertion order
getActiveOperationsUnsorted(operations) == ActiveMap(operations, Len(operations))

getActiveOperations(operations) ==
    SortByTimestamp(ActiveMap(operations, Len(operations)))

(***************************************************************************)
(* RoomManager.  A room is [users, operations]: the keys of its users Map  *)
(* (the username and the colour stored with a key are read by no handler   *)
(* below) and the operations list of its DrawingState.                     *)
(***************************************************************************)
NewRoom == [users |-> {}, operations |-> <<>>]

\* getRoom(roomId): the registry after the call (the room is created on a miss)
getRoom(rs, roomId) ==
    IF roomId \in DOMAIN rs THEN rs ELSE rs @@ (roomId :> NewRoom)

\* addUser(roomId, socketId, username)
addUser(rs, roomId, socketId) ==
    LET rs1 == getRoom(rs, roomId)
    IN [rs1 EXCEPT ![roomId].users = @ \cup {socketId}]

\* removeUser taking the operations of the user out of the log as well
removeUserPurging(rs, roomId, socketId) ==
    LET rs1 == getRoom(rs, roomId)
        rs2 == [rs1 EXCEPT ![roomId].users = @ \ {socketId},
                           ![roomId].operations = SelectSeq(@, LAMBDA o : o.userId # socketId)]
    IN IF rs2[roomId].users = {}
       THEN [x \in DOMAIN rs2 \ {roomId} |-> rs2[x]]
       ELSE rs2

\* removeUser(roomId, socketId)
removeUser(rs, roomId, socketId) ==
    LET rs1 == getRoom(rs, roomId)
        rs2 == [rs1 EXCEPT ![roomId].users = @ \ {socketId}]
    IN IF rs2[roomId].users = {}
       THEN [x \in DOMAIN rs2 \ {roomId} |-> rs2[x]]
       ELSE rs2

\* getUsers(roomId): the registry after the call; the list returned is
\* the users of the room in it
getUsers(rs, roomId) == getRoom(rs, roomId)

\* getActiveOps(roomId) on a registry that holds the room
getActiveOps(rs, roomId) == getActiveOperations(rs[roomId].operations)

(***************************************************************************)
(* Messages.  io.to(r) reaches the connections socket.io holds in room r;  *)
(* socket.emit reaches the connection itself.                              *)
(***************************************************************************)
InRoom(sio, r) == {s \in Sockets : r \in sio[s]}

Msg(ev, to, ops, users) == [ev |-> ev, to |-> to, ops |-> ops, users |-> users]

(***************************************************************************)
(* The server.  Init: the server is up and the connections of Sockets have *)
(* had their "connection" event (io.on("connection") only registers the    *)
(* handlers below); no room exists.  The pages have run main.js's load     *)
(* handler: autoConnect is false, so no page has connected.                *)
(***************************************************************************)
Init ==
    /\ rooms = <<>>
    /\ socketRoom = [s \in Sockets |-> NoRoom]
    /\ sioRooms = [s \in Sockets |-> {}]
    /\ conn = [s \in Sockets |-> "open"]
    /\ now = 0
    /\ nextId = 1
    /\ crafted = 0
    /\ emitted = <<>>
    /\ status = [p \in Pages |-> "idle"]
    /\ sock = [p \in Pages |-> NoSocket]
    /\ listeners = [p \in Pages |-> <<>>]
    /\ pendingBatch = [p \in Pages |-> <<>>]
    /\ batchInterval = [p \in Pages |-> FALSE]
    /\ outbox = [p \in Pages |-> <<>>]
    /\ inbox = [p \in Pages |-> <<>>]
    /\ preview = [p \in Pages |-> <<>>]
    /\ nextSeg = 1

\* time passes between two handlers
Tick ==
    /\ now' = now + 1
    /\ UNCHANGED <<rooms, socketRoom, sioRooms, conn, nextId, crafted, emitted>>

\* socket.on("join")
Join(s, roomId) ==
    /\ conn[s] = "open"
    /\ LET sio == [sioRooms EXCEPT ![s] = @ \cup {roomId}]
           rs1 == addUser(rooms, roomId, s)
           rs2 == getRoom(rs1, roomId)
           activeOps == getActiveOps(rs2, roomId)
           rs3 == getUsers(rs2, roomId)
       IN /\ sioRooms' = sio
          /\ socketRoom' = [socketRoom EXCEPT ![s] = roomId]
          /\ rooms' = rs3
          /\ emitted' = <<Msg("history", {s}, activeOps, {}),
                          Msg("users", InRoom(sio, roomId), <<>>, rs3[roomId].users)>>
    /\ UNCHANGED <<conn, now, nextId, crafted>>

\* socket.on("stroke-complete") appending to the room the payload names,
\* when it names one
StrokeCompleteByPayloadRoom(s, op) ==
    /\ conn[s] = "open"
    /\ LET r == socketRoom[s]
           q == IF op.roomId = AbsentVal.roomId THEN r ELSE op.roomId
       IN IF r = NoRoom
          THEN /\ emitted' = <<>>
               /\ UNCHANGED <<rooms, nextId>>
          ELSE LET rs1 == getRoom(rooms, q)
                   ops == addOperation(rs1[q].operations, q, op, s, nextId, now)
                   opObj == ops[Len(ops)]
               IN /\ rooms' = [rs1 EXCEPT ![q].operations = ops]
                  /\ nextId' = nextId + 1
                  /\ emitted' = <<Msg("stroke-complete", InRoom(sioRooms, r), <<opObj>>, {})>>
    /\ UNCHANGED <<socketRoom, sioRooms, conn, now>>

\* socket.on("stroke-complete") with payload op
StrokeComplete(s, op) ==
    /\ conn[s] = "open"
    /\ LET r == socketRoom[s]
       IN IF r = NoRoom
          THEN /\ emitted' = <<>>
               /\ UNCHANGED <<rooms, nextId>>
          ELSE LET rs1 == getRoom(rooms, r)
                   ops == addOperation(rs1[r].operations, r, op, s, nextId, now)
                   opObj == ops[Len(ops)]
               IN /\ rooms' = [rs1 EXCEPT ![r].operations = ops]
                  /\ nextId' = nextId + 1
                  /\ emitted' = <<Msg("stroke-complete", InRoom(sioRooms, r), <<opObj>>, {})>>
    /\ UNCHANGED <<socketRoom, sioRooms, conn, now>>

\* the repository's client sends the stroke canvas.js built
StrokeCompleteCanvas(s) ==
    /\ StrokeComplete(s, CanvasPayload)
    /\ UNCHANGED crafted

\* any other client may send any payload
StrokeCompleteCrafted(s) ==
    /\ crafted' = crafted + 1
    /\ \E op \in CraftedPayloads(1..(nextId - 1)) : StrokeComplete(s, op)

\* socket.on("undo")
Undo(s) ==
    /\ conn[s] = "open"
    /\ LET r == socketRoom[s]
       IN IF r = NoRoom
          THEN /\ emitted' = <<>>
               /\ UNCHANGED <<rooms, nextId>>
          ELSE LET rs1 == getRoom(rooms, r)
                   ops == undoOwn(rs1[r].operations, r, s, nextId, now)
                   inverse == IF ops = rs1[r].operations THEN <<>> ELSE <<ops[Len(ops)]>>
                   rs2 == [rs1 EXCEPT ![r].operations = ops]
               IN /\ rooms' = rs2
                  /\ nextId' = IF inverse = <<>> THEN nextId ELSE nextId + 1
                  /\ emitted' = IF inverse = <<>> THEN <<>>
                                ELSE <<Msg("history", InRoom(sioRooms, r),
                                           getActiveOps(rs2, r), {})>>
    /\ UNCHANGED <<socketRoom, sioRooms, conn, now, crafted>>

\* socket.on("redo")
Redo(s) ==
    /\ conn[s] = "open"
    /\ LET r == socketRoom[s]
       IN IF r = NoRoom
          THEN /\ emitted' = <<>>
               /\ UNCHANGED <<rooms, nextId>>
          ELSE LET rs1 == getRoom(rooms, r)
                   ops == redoOwn(rs1[r].operations, r, s, nextId, now)
                   redoOp == IF ops = rs1[r].operations THEN <<>> ELSE <<ops[Len(ops)]>>
                   rs2 == [rs1 EXCEPT ![r].operations = ops]
               IN /\ rooms' = rs2
                  /\ nextId' = IF redoOp = <<>> THEN nextId ELSE nextId + 1
                  /\ emitted' = IF redoOp = <<>> THEN <<>>
                                ELSE <<Msg("history", InRoom(sioRooms, r),
                                           getActiveOps(rs2, r), {})>>
    /\ UNCHANGED <<socketRoom, sioRooms, conn, now, crafted>>

\* socket.on("disconnect"): socket.io has taken the connection out of its
\* rooms before the handler runs
Disconnect(s) ==
    /\ conn[s] = "open"
    /\ conn' = [conn EXCEPT ![s] = "closed"]
    /\ LET sio == [sioRooms EXCEPT ![s] = {}]
           r == socketRoom[s]
       IN /\ sioRooms' = sio
          /\ IF r = NoRoom
             THEN /\ emitted' = <<>>
                  /\ UNCHANGED rooms
             ELSE LET rs1 == removeUser(rooms, r, s)
                      rs2 == getUsers(rs1, r)
                  IN /\ rooms' = rs2
                     /\ emitted' = <<Msg("users", InRoom(sio, r), <<>>, rs2[r].users),
                                     Msg("cursor", InRoom(sio, r), <<>>, {})>>
    /\ UNCHANGED <<socketRoom, now, nextId, crafted>>

(***************************************************************************)
(* Specifications.  The bounds cut the run, not the handlers: no commit,   *)
(* undo or redo event arrives once MaxOps of them have been handled.       *)
(***************************************************************************)
\* any clients, in any rooms
Next ==
    \/ now < MaxTime /\ Tick /\ UNCHANGED cvars
    \/ \E s \in Sockets, r \in RoomIds : Join(s, r) /\ UNCHANGED cvars
    \/ nextId <= MaxOps /\ \E s \in Sockets : StrokeCompleteCanvas(s) /\ UNCHANGED cvars
    \/ nextId <= MaxOps /\ crafted < MaxCrafted /\ \E s \in Sockets : StrokeCompleteCrafted(s) /\ UNCHANGED cvars
    \/ nextId <= MaxOps /\ \E s \in Sockets : Undo(s) /\ UNCHANGED cvars
    \/ nextId <= MaxOps /\ \E s \in Sockets : Redo(s) /\ UNCHANGED cvars
    \/ \E s \in Sockets : Disconnect(s) /\ UNCHANGED cvars

Spec == Init /\ [][Next]_vars

\* one client of the repository (canvas.js payloads), alone in room r1
NextSolo ==
    \/ now < MaxTime /\ Tick /\ UNCHANGED cvars
    \/ Join("s1", "r1") /\ UNCHANGED cvars
    \/ nextId <= MaxOpsSolo /\ StrokeCompleteCanvas("s1") /\ UNCHANGED cvars
    \/ nextId <= MaxOpsSolo /\ Undo("s1") /\ UNCHANGED cvars
    \/ nextId <= MaxOpsSolo /\ Redo("s1") /\ UNCHANGED cvars
    \/ Disconnect("s1") /\ UNCHANGED cvars

SpecSolo == Init /\ [][NextSolo]_vars

\* any clients, all naming room r1
NextRoom ==
    \/ now < MaxTime /\ Tick /\ UNCHANGED cvars
    \/ \E s \in Sockets : Join(s, "r1") /\ UNCHANGED cvars
    \/ nextId <= MaxOpsRoom /\ \E s \in Sockets : StrokeCompleteCanvas(s) /\ UNCHANGED cvars
    \/ nextId <= MaxOpsRoom /\ crafted < MaxCrafted /\ \E s \in Sockets : StrokeCompleteCrafted(s) /\ UNCHANGED cvars
    \/ nextId <= MaxOpsRoom /\ \E s \in Sockets : Undo(s) /\ UNCHANGED cvars
    \/ nextId <= MaxOpsRoom /\ \E s \in Sockets : Redo(s) /\ UNCHANGED cvars
    \/ \E s \in Sockets : Disconnect(s) /\ UNCHANGED cvars

SpecRoom == Init /\ [][NextRoom]_vars

\* clients of the repository only (canvas.js payloads), all naming room r1
NextCanvas ==
    \/ now < MaxTime /\ Tick /\ UNCHANGED cvars
    \/ \E s \in Sockets : Join(s, "r1") /\ UNCHANGED cvars
    \/ nextId <= MaxOpsCanvas /\ \E s \in Sockets : StrokeCompleteCanvas(s) /\ UNCHANGED cvars
    \/ nextId <= MaxOpsCanvas /\ \E s \in Sockets : Undo(s) /\ UNCHANGED cvars
    \/ nextId <= MaxOpsCanvas /\ \E s \in Sockets : Redo(s) /\ UNCHANGED cvars
    \/ \E s \in Sockets : Disconnect(s) /\ UNCHANGED cvars

SpecCanvas == Init /\ [][NextCanvas]_vars

(***************************************************************************)
(* Vocabulary of the properties.  The operators take the registry they     *)
(* read, so that a step can be described by its two registries.            *)
(***************************************************************************)
IsPrefix(a, b) == Len(a) <= Len(b) /\ \A i \in 1..Len(a) : a[i] = b[i]

Range(f) == {f[i] : i \in DOMAIN f}

LogOf(rs, r) == rs[r].operations

\* what the members of room r are shown
ActiveOf(rs, r) == getActiveOperations(rs[r].operations)

ActiveIdsOf(rs, r) == {o.id : o \in Range(ActiveOf(rs, r))}

\* the connection has joined and is still there; RoomOf(s) is the room it acts in
Joined(s) == conn[s] = "open" /\ socketRoom[s] # NoRoom

RoomOf(s) == socketRoom[s]

\* the step deletes room r from the registry: its last user disconnects
Destroys(s, r) == Disconnect(s) /\ socketRoom[s] = r /\ rooms[r].users \subseteq {s}

(***************************************************************************)
(* C1  Append-only log: while a room exists, a step only adds operations   *)
(* at the end of its list; what was at index i stays at index i,           *)
(* unchanged.  (A room whose last user disconnects is deleted; the room    *)
(* another getRoom makes under the same identifier is a new one.)          *)
(***************************************************************************)
C1_AppendOnly ==
    [][\A r \in (DOMAIN rooms) \cap (DOMAIN rooms') :
          (~ \E s \in Sockets : Destroys(s, r))
             => IsPrefix(LogOf(rooms, r), LogOf(rooms', r))]_vars

\* a room survived a join, a commit, an undo, a redo and a disconnect
C1_Witness ==
    \E r \in DOMAIN rooms :
        /\ Len(LogOf(rooms, r)) = 3
        /\ LogOf(rooms, r)[1].type = "stroke"
        /\ LogOf(rooms, r)[2].type = "undo"
        /\ LogOf(rooms, r)[3].type = "redo"
        /\ \E s \in Sockets : conn[s] = "closed" /\ socketRoom[s] = r
        /\ rooms[r].users # {}

(***************************************************************************)
(* C2  Per-user undo isolation: an undo or a redo issued by user A never   *)
(* changes whether a stroke of another user B of the room is among the     *)
(* active operations.                                                      *)
(***************************************************************************)
C2_UndoIsolation ==
    [][\A a \in Sockets :
          (Joined(a) /\ (Undo(a) \/ Redo(a))) =>
             \A o \in Range(LogOf(rooms, RoomOf(a))) :
                (o.type = "stroke" /\ o.userId # a /\ o.userId \in rooms[RoomOf(a)].users)
                   => (o \in Range(ActiveOf(rooms, RoomOf(a)))
                          <=> o \in Range(ActiveOf(rooms', RoomOf(a))))]_vars

\* the strokes of user a in log L (their indices), those getActiveOperations
\* shows and those it does not
StrokesOf(L, a) == {i \in 1..Len(L) : L[i].type = "stroke" /\ L[i].userId = a}

VisibleOf(L, a) == {i \in StrokesOf(L, a) : L[i] \in Range(getActiveOperations(L))}

HiddenOf(L, a) == StrokesOf(L, a) \ VisibleOf(L, a)

IdsOf(ops) == {o.id : o \in Range(ops)}

Prefix(L, n) == SubSeq(L, 1, n)

Max(S) == CHOOSE i \in S : \A j \in S : j <= i

\* the index at which stroke L[i] was hidden last: the last undo naming it
HiddenAt(L, i) ==
    Max({0} \cup {k \in 1..Len(L) : L[k].type = "undo" /\ L[k].inverseOf = L[i].id})

(***************************************************************************)
(* C3  Undo/redo round trip: when user A has a visible stroke, an undo by  *)
(* A immediately followed by a redo by A leaves the set of active stroke   *)
(* ids as it was before the undo.                                          *)
(* (Stated on the redo step: the log ends with the undo A just made, and   *)
(* the log before that undo is the prefix below it.)                       *)
(***************************************************************************)
C3_UndoRedoRoundTrip ==
    [][\A a \in Sockets :
          LET L == LogOf(rooms, RoomOf(a))
              n == Len(L)
          IN (/\ Joined(a) /\ Redo(a)
              /\ n >= 1 /\ L[n].type = "undo" /\ L[n].userId = a
              /\ VisibleOf(Prefix(L, n - 1), a) # {})
                => IdsOf(ActiveOf(rooms', RoomOf(a)))
                      = IdsOf(getActiveOperations(Prefix(L, n - 1)))]_vars

(***************************************************************************)
(* C4  No-op undo: when user A has no visible stroke in the room (A never  *)
(* drew, or all of A's strokes are hidden), an undo by A returns none,     *)
(* leaves the log as it is and broadcasts nothing.                         *)
(***************************************************************************)
C4_NoOpUndo ==
    [][\A a \in Sockets :
          (Joined(a) /\ Undo(a) /\ VisibleOf(LogOf(rooms, RoomOf(a)), a) = {})
             => (rooms' = rooms /\ emitted' = <<>>)]_vars

(***************************************************************************)
(* C5  No-op redo: when user A has no hidden stroke in the room, a redo by *)
(* A returns none, appends nothing and broadcasts nothing.                 *)
(***************************************************************************)
C5_NoOpRedo ==
    [][\A a \in Sockets :
          (Joined(a) /\ Redo(a) /\ HiddenOf(LogOf(rooms, RoomOf(a)), a) = {})
             => (rooms' = rooms /\ emitted' = <<>>)]_vars

(***************************************************************************)
(* C6  Undo target: when user A has a visible stroke, an undo by A takes   *)
(* out of the active set exactly the visible stroke A committed last, and  *)
(* nothing else (so k undos hide k strokes, latest first).                 *)
(***************************************************************************)
C6_UndoTarget ==
    [][\A a \in Sockets :
          LET L == LogOf(rooms, RoomOf(a))
          IN (Joined(a) /\ Undo(a) /\ VisibleOf(L, a) # {})
                => Range(ActiveOf(rooms', RoomOf(a)))
                      = Range(getActiveOperations(L)) \ {L[Max(VisibleOf(L, a))]}]_vars

(***************************************************************************)
(* C7  Redo target: when user A has a hidden stroke, a redo by A makes     *)
(* visible exactly the one of A's hidden strokes that was hidden last (so  *)
(* enough redos restore every stroke A hid, last hidden first).            *)
(***************************************************************************)
C7_RedoTarget ==
    [][\A a \in Sockets :
          LET L == LogOf(rooms, RoomOf(a))
              H == HiddenOf(L, a)
              h == CHOOSE i \in H : \A j \in H : HiddenAt(L, j) <= HiddenAt(L, i)
          IN (Joined(a) /\ Redo(a) /\ H # {})
                => Range(ActiveOf(rooms', RoomOf(a)))
                      = Range(getActiveOperations(L)) \cup {L[h]}]_vars

(***************************************************************************)
(* C8  Redo survives new strokes: user A undoes stroke S, commits a new    *)
(* stroke S2 and issues redo; then S is visible again and S2 is still      *)
(* visible.                                                                *)
(* (Stated on the redo step: i is A's undo, j the stroke A committed after *)
(* it, and A made no other undo or redo since i.)                          *)
(***************************************************************************)
C8_RedoSurvivesNewStroke ==
    [][\A a \in Sockets :
          LET L == LogOf(rooms, RoomOf(a))
          IN (Joined(a) /\ Redo(a)) =>
                \A i \in 1..Len(L), j \in 1..Len(L) :
                   (/\ i < j
                    /\ L[i].type = "undo" /\ L[i].userId = a
                    /\ L[j].type = "stroke" /\ L[j].userId = a
                    /\ \A k \in (i + 1)..Len(L) : L[k].userId = a => L[k].type = "stroke")
                      => /\ L[j] \in Range(ActiveOf(rooms', RoomOf(a)))
                         /\ \A k \in StrokesOf(L, a) :
                               L[k].id = L[i].inverseOf
                                  => L[k] \in Range(ActiveOf(rooms', RoomOf(a)))]_vars

About(L, o) ==
    {k \in 1..Len(L) : \/ L[k] = o
                       \/ L[k].type = "undo" /\ L[k].inverseOf = o.id
                       \/ L[k].type = "redo" /\ L[k].redoOf = o.id}

\* the strokes of log L that are not currently hidden: the last operation
\* about each is not an undo
VisibleStrokes(L) ==
    {o \in Range(L) : o.type = "stroke" /\ L[Max(About(L, o))].type # "undo"}

\* the last handler was the join of connection s
JustJoined(s) ==
    /\ Len(emitted) = 2
    /\ emitted[1].ev = "history" /\ emitted[1].to = {s}
    /\ emitted[2].ev = "users"

(***************************************************************************)
(* C10  Late-join history: the history a connection is sent when it joins  *)
(* a room is the active set of the room's log at that moment: every stroke *)
(* committed and not currently hidden, and no hidden stroke, whatever      *)
(* commits, undos and redos came before.                                   *)
(***************************************************************************)
C10_LateJoinHistory ==
    \A s \in Sockets :
        JustJoined(s) =>
            /\ Range(emitted[1].ops) = VisibleStrokes(LogOf(rooms, RoomOf(s)))
            /\ Len(emitted[1].ops) = Cardinality(Range(emitted[1].ops))

(***************************************************************************)
(* C11  No leakage across sessions: when every connection that joined room *)
(* r has disconnected (no open connection has joined r), the next join of  *)
(* r is sent an empty history and finds the room's log empty.              *)
(***************************************************************************)
C11_NoLeakage ==
    [][\A s \in Sockets, r \in RoomIds :
          (Join(s, r) /\ InRoom(sioRooms, r) = {})
             => (emitted'[1].ops = <<>> /\ LogOf(rooms', r) = <<>>)]_vars

\* the connection's stroke-complete handler runs, whatever the payload
Commits(s) == StrokeCompleteCanvas(s) \/ StrokeCompleteCrafted(s)

(***************************************************************************)
(* C12  Commit stamping: the operation a stroke commit appends has type    *)
(* stroke, the id of the submitting connection as userId, the room it was  *)
(* appended to as roomId and an id no other operation of the log has,      *)
(* whatever the payload holds.                                             *)
(***************************************************************************)
C12_CommitStamping ==
    [][\A s \in Sockets :
          (Joined(s) /\ Commits(s)) =>
             LET L == LogOf(rooms', RoomOf(s))
                 o == L[Len(L)]
             IN /\ o.type = "stroke"
                /\ o.userId = s
                /\ o.roomId = RoomOf(s)
                /\ \A k \in 1..(Len(L) - 1) : L[k].id # o.id]_vars

(***************************************************************************)
(* C13  Coordinator-assigned timestamps: an operation is appended with the *)
(* server's Date.now() of that moment as its timestamp, whatever the       *)
(* payload holds, and no earlier operation of the log has a larger one.    *)
(***************************************************************************)
C13_ServerTimestamps ==
    [][\A r \in (DOMAIN rooms) \cap (DOMAIN rooms') :
          LET L == LogOf(rooms', r)
          IN \A k \in (Len(LogOf(rooms, r)) + 1)..Len(L) :
                /\ L[k].timestamp = now
                /\ \A i \in 1..(k - 1) : L[i].timestamp <= L[k].timestamp]_vars

(***************************************************************************)
(* The RoomManager called directly.  room.js exports one RoomManager; the  *)
(* actions below are calls of its methods with any room identifier and any *)
(* user id, as a caller other than server.js may make them.                *)
(***************************************************************************)
MaxOpsManager == 3   \* addOperation, undoOwn and redoOwn calls that append

\* RoomManager.addOperation(roomId, operation, userId): the registry after it
RoomManager_addOperation(rs, roomId, operation, userId, id, t) ==
    LET rs1 == getRoom(rs, roomId)
    IN [rs1 EXCEPT ![roomId].operations = addOperation(@, roomId, operation, userId, id, t)]

\* RoomManager.undoOwn(roomId, userId)
RoomManager_undoOwn(rs, roomId, userId, id, t) ==
    LET rs1 == getRoom(rs, roomId)
    IN [rs1 EXCEPT ![roomId].operations = undoOwn(@, roomId, userId, id, t)]

\* RoomManager.redoOwn(roomId, userId)
RoomManager_redoOwn(rs, roomId, userId, id, t) ==
    LET rs1 == getRoom(rs, roomId)
    IN [rs1 EXCEPT ![roomId].operations = redoOwn(@, roomId, userId, id, t)]

CallAddUser(roomId, socketId) ==
    /\ rooms' = addUser(rooms, roomId, socketId)
    /\ UNCHANGED <<socketRoom, sioRooms, conn, now, nextId, crafted, emitted>>

CallRemoveUser(roomId, socketId) ==
    /\ rooms' = removeUser(rooms, roomId, socketId)
    /\ UNCHANGED <<socketRoom, sioRooms, conn, now, nextId, crafted, emitted>>

CallGetUsers(roomId) ==
    /\ rooms' = getUsers(rooms, roomId)
    /\ UNCHANGED <<socketRoom, sioRooms, conn, now, nextId, crafted, emitted>>

CallGetActiveOps(roomId) ==
    /\ rooms' = getRoom(rooms, roomId)
    /\ UNCHANGED <<socketRoom, sioRooms, conn, now, nextId, crafted, emitted>>

CallAddOperation(roomId, userId) ==
    /\ rooms' = RoomManager_addOperation(rooms, roomId, CanvasPayload, userId, nextId, now)
    /\ nextId' = nextId + 1
    /\ UNCHANGED <<socketRoom, sioRooms, conn, now, crafted, emitted>>

CallUndoOwn(roomId, userId) ==
    /\ LET rs == RoomManager_undoOwn(rooms, roomId, userId, nextId, now)
       IN /\ rooms' = rs
          /\ nextId' = IF rs = getRoom(rooms, roomId) THEN nextId ELSE nextId + 1
    /\ UNCHANGED <<socketRoom, sioRooms, conn, now, crafted, emitted>>

CallRedoOwn(roomId, userId) ==
    /\ LET rs == RoomManager_redoOwn(rooms, roomId, userId, nextId, now)
       IN /\ rooms' = rs
          /\ nextId' = IF rs = getRoom(rooms, roomId) THEN nextId ELSE nextId + 1
    /\ UNCHANGED <<socketRoom, sioRooms, conn, now, crafted, emitted>>

NextManager ==
    \/ now < MaxTime /\ Tick /\ UNCHANGED cvars
    \/ \E r \in RoomIds, u \in Sockets : CallAddUser(r, u) /\ UNCHANGED cvars
    \/ \E r \in RoomIds, u \in Sockets : CallRemoveUser(r, u) /\ UNCHANGED cvars
    \/ \E r \in RoomIds : CallGetUsers(r) /\ UNCHANGED cvars
    \/ \E r \in RoomIds : CallGetActiveOps(r) /\ UNCHANGED cvars
    \/ nextId <= MaxOpsManager /\ \E r \in RoomIds, u \in Sockets : CallAddOperation(r, u) /\ UNCHANGED cvars
    \/ nextId <= MaxOpsManager /\ \E r \in RoomIds, u \in Sockets : CallUndoOwn(r, u) /\ UNCHANGED cvars
    \/ nextId <= MaxOpsManager /\ \E r \in RoomIds, u \in Sockets : CallRedoOwn(r, u) /\ UNCHANGED cvars

SpecManager == Init /\ [][NextManager]_vars

\* the call names a room the registry does not hold, or a user the room
\* does not hold
Unknown(r, u) == r \notin DOMAIN rooms \/ u \notin rooms[r].users

(***************************************************************************)
(* C14  Unknown room or author: a RoomManager call that names a room the   *)
(* registry does not hold, or (addOperation, undoOwn, redoOwn) an author   *)
(* who is not a user of the room, changes nothing: no room is created and  *)
(* no log grows.                                                           *)
(***************************************************************************)
C14_UnknownRejected ==
    [][\A r \in RoomIds :
          /\ \A u \in Sockets :
                (Unknown(r, u) /\ (CallAddOperation(r, u) \/ CallUndoOwn(r, u) \/ CallRedoOwn(r, u)))
                   => rooms' = rooms
          /\ (r \notin DOMAIN rooms
                 /\ (CallGetActiveOps(r) \/ CallGetUsers(r)
                        \/ \E u \in Sockets : CallRemoveUser(r, u)))
                => rooms' = rooms]_vars

(***************************************************************************)
(* The other events of server.js: live stroke segments, cursors, snapshot  *)
(* requests and the latency ping.  None of them writes to a log.           *)
(***************************************************************************)
MaxOpsEvents == 2    \* commit, undo and redo events handled next to the other events

\* socket.on("stroke") without its "if (!r) return"
StrokeUngated(s) ==
    /\ conn[s] = "open"
    /\ emitted' = <<Msg("stroke", InRoom(sioRooms, socketRoom[s]) \ {s}, <<>>, {})>>
    /\ UNCHANGED <<rooms, socketRoom, sioRooms, conn, now, nextId, crafted>>

\* socket.on("stroke"): socket.broadcast.to(r) reaches the room but the sender
Stroke(s) ==
    /\ conn[s] = "open"
    /\ LET r == socketRoom[s]
       IN emitted' = IF r = NoRoom THEN <<>>
                     ELSE <<Msg("stroke", InRoom(sioRooms, r) \ {s}, <<>>, {})>>
    /\ UNCHANGED <<rooms, socketRoom, sioRooms, conn, now, nextId, crafted>>

\* socket.on("stroke-batch") keeping the batch as an operation of the room
StrokeBatchRecording(s) ==
    /\ conn[s] = "open"
    /\ LET r == socketRoom[s]
       IN IF r = NoRoom
          THEN /\ emitted' = <<>>
               /\ UNCHANGED rooms
          ELSE LET rs1 == getRoom(rooms, r)
               IN /\ rooms' = [rs1 EXCEPT ![r].operations =
                                  addOperation(@, r, CanvasPayload, s, nextId, now)]
                  /\ emitted' = <<Msg("stroke-batch", InRoom(sioRooms, r) \ {s}, <<>>, {})>>
    /\ UNCHANGED <<socketRoom, sioRooms, conn, now, nextId, crafted>>

\* socket.on("stroke-batch")
StrokeBatch(s) ==
    /\ conn[s] = "open"
    /\ LET r == socketRoom[s]
       IN emitted' = IF r = NoRoom THEN <<>>
                     ELSE <<Msg("stroke-batch", InRoom(sioRooms, r) \ {s}, <<>>, {})>>
    /\ UNCHANGED <<rooms, socketRoom, sioRooms, conn, now, nextId, crafted>>

\* socket.on("cursor"): the handler throws at user.username when the room
\* does not hold the connection, after getRoom has run
Cursor(s) ==
    /\ conn[s] = "open"
    /\ LET r == socketRoom[s]
       IN IF r = NoRoom
          THEN /\ emitted' = <<>>
               /\ UNCHANGED rooms
          ELSE LET rs1 == getRoom(rooms, r)
               IN /\ rooms' = rs1
                  /\ emitted' = IF s \in rs1[r].users
                                THEN <<Msg("cursor", InRoom(sioRooms, r) \ {s}, <<>>, {})>>
                                ELSE <<>>
    /\ UNCHANGED <<socketRoom, sioRooms, conn, now, nextId, crafted>>

\* socket.on("request-snapshot"): nothing calls saveSnapshot, so getSnapshot
\* returns null and nothing is emitted
RequestSnapshot(s) ==
    /\ conn[s] = "open"
    /\ LET r == socketRoom[s]
       IN rooms' = IF r = NoRoom THEN rooms ELSE getRoom(rooms, r)
    /\ emitted' = <<>>
    /\ UNCHANGED <<socketRoom, sioRooms, conn, now, nextId, crafted>>

\* socket.on("ping-check")
PingCheck(s) ==
    /\ conn[s] = "open"
    /\ emitted' = <<Msg("pong-check", {s}, <<>>, {})>>
    /\ UNCHANGED <<rooms, socketRoom, sioRooms, conn, now, nextId, crafted>>

\* any clients, in any rooms, sending any event server.js listens to
NextEvents ==
    \/ now < MaxTime /\ Tick /\ UNCHANGED cvars
    \/ \E s \in Sockets, r \in RoomIds : Join(s, r) /\ UNCHANGED cvars
    \/ \E s \in Sockets : Stroke(s) /\ UNCHANGED cvars
    \/ \E s \in Sockets : StrokeBatch(s) /\ UNCHANGED cvars
    \/ nextId <= MaxOpsEvents /\ \E s \in Sockets : StrokeCompleteCanvas(s) /\ UNCHANGED cvars
    \/ nextId <= MaxOpsEvents /\ crafted < MaxCrafted /\ \E s \in Sockets : StrokeCompleteCrafted(s) /\ UNCHANGED cvars
    \/ \E s \in Sockets : Cursor(s) /\ UNCHANGED cvars
    \/ nextId <= MaxOpsEvents /\ \E s \in Sockets : Undo(s) /\ UNCHANGED cvars
    \/ nextId <= MaxOpsEvents /\ \E s \in Sockets : Redo(s) /\ UNCHANGED cvars
    \/ \E s \in Sockets : RequestSnapshot(s) /\ UNCHANGED cvars
    \/ \E s \in Sockets : PingCheck(s) /\ UNCHANGED cvars
    \/ \E s \in Sockets : Disconnect(s) /\ UNCHANGED cvars

SpecEvents == Init /\ [][NextEvents]_vars

\* the connection is open and has not sent join
NotJoined(s) == conn[s] = "open" /\ socketRoom[s] = NoRoom

(***************************************************************************)
(* C15  Join-first gating: a stroke, stroke-batch, stroke-complete,        *)
(* cursor, undo, redo or request-snapshot message of a connection that has *)
(* not sent join changes no room, log or membership and emits nothing.     *)
(***************************************************************************)
C15_JoinFirst ==
    [][\A s \in Sockets :
          (NotJoined(s) /\ (Stroke(s) \/ StrokeBatch(s) \/ Commits(s) \/ Cursor(s)
                               \/ Undo(s) \/ Redo(s) \/ RequestSnapshot(s)))
             => /\ rooms' = rooms
                /\ socketRoom' = socketRoom
                /\ sioRooms' = sioRooms
                /\ emitted' = <<>>]_vars

\* a connection joined, drew and left (its disconnect emitted two messages);
\* the connection that is left has not joined, and the message it sent
\* since was answered by nothing
C15_Witness ==
    /\ emitted = <<>>
    /\ \E c \in Sockets : conn[c] = "closed" /\ socketRoom[c] # NoRoom
    /\ \E s \in Sockets : conn[s] = "open"
    /\ \A s \in Sockets : (conn[s] = "open") <=> (socketRoom[s] = NoRoom)
    /\ nextId > 1

(***************************************************************************)
(* C16  Room lifecycle: after every handler, every room of the registry    *)
(* has at least one user; a room does not outlive its last user.           *)
(***************************************************************************)
C16_RoomLifecycle ==
    \A r \in DOMAIN rooms : rooms[r].users # {}

(***************************************************************************)
(* C17  Participant lifetime: once the disconnect of a connection has been *)
(* handled, the connection is among the users of no room, whatever rooms   *)
(* it joined.                                                              *)
(***************************************************************************)
C17_ParticipantLifetime ==
    \A s \in Sockets :
        conn[s] = "closed" => \A r \in DOMAIN rooms : s \notin rooms[r].users

(***************************************************************************)
(* C18  Leaving never purges history: when a connection disconnects from a *)
(* room in which another user remains, the room's log and what             *)
(* getActiveOperations() returns are as before; the strokes the leaver     *)
(* committed stay visible.                                                 *)
(***************************************************************************)
C18_LeavingKeepsHistory ==
    [][\A s \in Sockets : \A r \in DOMAIN rooms :
          (Disconnect(s) /\ s \in rooms[r].users /\ rooms[r].users \ {s} # {})
             => /\ r \in DOMAIN rooms'
                /\ LogOf(rooms', r) = LogOf(rooms, r)
                /\ ActiveOf(rooms', r) = ActiveOf(rooms, r)]_vars

\* a connection committed a stroke in its room and disconnected while
\* another user was there; its stroke is among the active operations
C18_Witness ==
    /\ crafted = 0
    /\ \E c \in Sockets :
          /\ conn[c] = "closed"
          /\ socketRoom[c] \in DOMAIN rooms
          /\ rooms[socketRoom[c]].users # {}
          /\ \E o \in Range(ActiveOf(rooms, socketRoom[c])) :
                o.type = "stroke" /\ o.userId = c

\* the index at which operation o was appended to log L
IndexIn(L, o) == CHOOSE k \in 1..Len(L) : L[k] = o /\ \A j \in 1..(k - 1) : L[j] # o

\* the operations of log L after the first n are undos and redos, one at least
OnlyUndoRedoSince(L, n) ==
    /\ n < Len(L)
    /\ \A k \in (n + 1)..Len(L) : L[k].type \in {"undo", "redo"}

(***************************************************************************)
(* C19  Undo and redo never reorder surviving strokes: two strokes that    *)
(* were both active before a sequence of undos and redos (the log's first  *)
(* n operations) and are both active after it are in the same order in     *)
(* getActiveOperations() before and after, which is the order in which     *)
(* they were committed to the log, also when they carry the same           *)
(* timestamp.                                                              *)
(***************************************************************************)
C19_NoReorder ==
    \A r \in DOMAIN rooms :
        LET L == LogOf(rooms, r)
            A == ActiveOf(rooms, r)
        IN \A n \in 0..Len(L) :
              OnlyUndoRedoSince(L, n) =>
                 LET B == getActiveOperations(Prefix(L, n))
                 IN \A i \in 1..Len(A), j \in 1..Len(A) :
                       (i < j /\ A[i] \in Range(B) /\ A[j] \in Range(B))
                          => /\ IndexIn(B, A[i]) < IndexIn(B, A[j])
                             /\ IndexIn(L, A[i]) < IndexIn(L, A[j])

(***************************************************************************)
(* The client.  main.js hands a received "history" to canvas.redraw and a  *)
(* received "stroke-complete" to canvas.drawOp; the main canvas is kept as *)
(* the sequence of the operations painted on it, bottom first.             *)
(***************************************************************************)
\* CanvasSystem.drawOp(op): paints the operation, whatever its type, over
\* what is there; it throws at pts.length when the operation has no points
drawOp(canvas, op) == IF op.points = "" THEN canvas ELSE Append(canvas, op)

\* CanvasSystem.redraw(ops): clears the canvas and paints the operations in
\* order; a throw of drawOp ends the loop
RECURSIVE redraw(_)
redraw(ops) ==
    IF ops = <<>> \/ Head(ops).points = "" THEN <<>>
    ELSE <<Head(ops)>> \o redraw(Tail(ops))

\* ws.on("history") and ws.on("stroke-complete") of main.js; the other
\* events do not paint on the main canvas
Receive(canvas, m) ==
    CASE m.ev = "history" -> redraw(m.ops)
      [] m.ev = "stroke-complete" -> drawOp(canvas, m.ops[1])
      [] OTHER -> canvas

\* the canvas of connection s once the messages msgs emitted to it have
\* arrived, in the order in which they were emitted
RECURSIVE Deliver(_, _, _)
Deliver(canvas, msgs, s) ==
    IF msgs = <<>> THEN canvas
    ELSE Deliver(IF s \in Head(msgs).to THEN Receive(canvas, Head(msgs)) ELSE canvas,
                 Tail(msgs), s)

(***************************************************************************)
(* C20  View convergence: for every member of a room, the strokes obtained *)
(* by applying the messages it received, in order (history replaces the    *)
(* view, stroke-complete appends one stroke), are the server's             *)
(* getActiveOperations() of the room once the messages are delivered.      *)
(* (Stated on a handler's step: a member whose view was the active set     *)
(* before the handler has the new active set as its view after the         *)
(* handler's messages; a connection that joins starts from the history it  *)
(* is sent.)                                                               *)
(***************************************************************************)
C20_ViewConvergence ==
    [][\A s \in Sockets :
          (now' = now /\ conn'[s] = "open" /\ socketRoom'[s] # NoRoom) =>
             LET before == IF Joined(s) /\ RoomOf(s) \in DOMAIN rooms
                           THEN ActiveOf(rooms, RoomOf(s))
                           ELSE <<>>
             IN Deliver(before, emitted', s) = ActiveOf(rooms', socketRoom'[s])]_vars

(***************************************************************************)
(* C21  No duplicate undo: an undo operation appended to a log names a     *)
(* stroke that getActiveOperations() held right before the append (so no   *)
(* two undos of one target follow each other without a redo of it).        *)
(***************************************************************************)
C21_NoDuplicateUndo ==
    [][\A r \in (DOMAIN rooms) \cap (DOMAIN rooms') :
          LET L == LogOf(rooms', r)
          IN \A k \in (Len(LogOf(rooms, r)) + 1)..Len(L) :
                L[k].type = "undo" => L[k].inverseOf \in ActiveIdsOf(rooms, r)]_vars

(***************************************************************************)
(* C22  Control operations are well formed: in every log, the inverseOf of *)
(* an undo and the redoOf of a redo is the id of a stroke that is earlier  *)
(* in the same log and has the userId of the undo or redo.                 *)
(***************************************************************************)
C22_ControlWellFormed ==
    \A r \in DOMAIN rooms :
        LET L == LogOf(rooms, r)
        IN \A k \in 1..Len(L) :
              L[k].type \in {"undo", "redo"} =>
                 \E i \in 1..(k - 1) :
                    /\ L[i].type = "stroke"
                    /\ L[i].id = (IF L[k].type = "undo" THEN L[k].inverseOf ELSE L[k].redoOf)
                    /\ L[i].userId = L[k].userId

(***************************************************************************)
(* C23  Previews and cursors are ephemeral: a stroke, stroke-batch, cursor *)
(* or ping-check message leaves the log, the active set and the users of   *)
(* every room as they are, and no history message is emitted for it.       *)
(***************************************************************************)
C23_Ephemeral ==
    [][\A s \in Sockets :
          (conn[s] = "open" /\ (Stroke(s) \/ StrokeBatch(s) \/ Cursor(s) \/ PingCheck(s)))
             => /\ DOMAIN rooms' = DOMAIN rooms
                /\ \A r \in DOMAIN rooms :
                      /\ LogOf(rooms', r) = LogOf(rooms, r)
                      /\ ActiveOf(rooms', r) = ActiveOf(rooms, r)
                      /\ rooms'[r].users = rooms[r].users
                /\ \A i \in 1..Len(emitted') : emitted'[i].ev # "history"]_vars

\* a batch of live segments was relayed to the other member of a room
\* whose log holds an operation
C23_Witness ==
    /\ Len(emitted) = 1
    /\ emitted[1].ev = "stroke-batch"
    /\ emitted[1].to # {}
    /\ \E s \in Sockets \ emitted[1].to :
          /\ Joined(s)
          /\ emitted[1].to \subseteq rooms[RoomOf(s)].users
          /\ LogOf(rooms, RoomOf(s)) # <<>>

\* any clients, in any rooms, all within one millisecond (timestamps play no
\* part in which room a handler writes to)
NextRooms ==
    \/ \E s \in Sockets, r \in RoomIds : Join(s, r) /\ UNCHANGED cvars
    \/ nextId <= MaxOps /\ \E s \in Sockets : StrokeCompleteCanvas(s) /\ UNCHANGED cvars
    \/ nextId <= MaxOps /\ crafted < MaxCrafted /\ \E s \in Sockets : StrokeCompleteCrafted(s) /\ UNCHANGED cvars
    \/ nextId <= MaxOps /\ \E s \in Sockets : Undo(s) /\ UNCHANGED cvars
    \/ nextId <= MaxOps /\ \E s \in Sockets : Redo(s) /\ UNCHANGED cvars
    \/ \E s \in Sockets : Disconnect(s) /\ UNCHANGED cvars

SpecRooms == Init /\ [][NextRooms]_vars

\* room q is in both registries or in neither, with the same users and log
SameRoom(rs1, rs2, q) ==
    /\ q \in DOMAIN rs1 <=> q \in DOMAIN rs2
    /\ q \in DOMAIN rs1 =>
          /\ LogOf(rs2, q) = LogOf(rs1, q)
          /\ ActiveOf(rs2, q) = ActiveOf(rs1, q)
          /\ rs2[q].users = rs1[q].users

(***************************************************************************)
(* C24  Cross-room isolation: a join of room r, and a stroke commit, undo, *)
(* redo or disconnect of a connection whose room is r, leave the log, the  *)
(* active set and the users of every other room as they are.               *)
(***************************************************************************)
C24_CrossRoomIsolation ==
    [][\A s \in Sockets, r \in RoomIds :
          (\/ Join(s, r)
           \/ /\ conn[s] = "open" /\ socketRoom[s] = r
              /\ (Commits(s) \/ Undo(s) \/ Redo(s) \/ Disconnect(s)))
             => \A q \in RoomIds \ {r} : SameRoom(rooms, rooms', q)]_vars

\* two rooms have users and a log each, and a commit was just handled
C24_Witness ==
    /\ \A r \in {"r1", "r2"} :
          r \in DOMAIN rooms /\ rooms[r].users # {} /\ LogOf(rooms, r) # <<>>
    /\ Len(emitted) = 1
    /\ emitted[1].ev = "stroke-complete"

\* the users of room r whose connection is open
OpenUsers(r) == {m \in rooms[r].users : conn[m] = "open"}

(***************************************************************************)
(* C25  Broadcast order follows log order: the stroke-complete handler     *)
(* appends one operation at the end of the room's log and then emits one   *)
(* stroke-complete message, which carries that operation and reaches every *)
(* open connection among the room's users.  Handlers run one at a time, so *)
(* the broadcasts of a room are emitted in the order of its log.           *)
(***************************************************************************)
C25_BroadcastOrder ==
    [][\A s \in Sockets :
          (Joined(s) /\ Commits(s)) =>
             /\ RoomOf(s) \in DOMAIN rooms
             /\ LET L == LogOf(rooms', RoomOf(s))
                    o == L[Len(L)]
                IN /\ L = Append(LogOf(rooms, RoomOf(s)), o)
                   /\ Len(emitted') = 1
                   /\ emitted'[1].ev = "stroke-complete"
                   /\ emitted'[1].ops = <<o>>
                   /\ OpenUsers(RoomOf(s)) \subseteq emitted'[1].to]_vars

\* two connections are in one room, each committed a stroke, and the
\* broadcast of the second commit has just been emitted to both
C25_Witness ==
    \E r \in DOMAIN rooms :
        LET L == LogOf(rooms, r)
        IN /\ Len(L) = 2
           /\ L[1].userId # L[2].userId
           /\ {L[1].userId, L[2].userId} \subseteq OpenUsers(r)
           /\ emitted = <<Msg("stroke-complete", emitted[1].to, <<L[2]>>, {})>>
           /\ OpenUsers(r) \subseteq emitted[1].to

\* a stroke-complete payload that fails structural validation: it has no
\* points (and no tool, colour or width)
Malformed(op) == op.points = AbsentVal.points

(***************************************************************************)
(* C26  Malformed commits are rejected: a stroke-complete whose payload    *)
(* has no points leaves every room's log and active set as they are and    *)
(* nothing is emitted for it.                                              *)
(***************************************************************************)
C26_MalformedRejected ==
    [][\A s \in Sockets : \A op \in CraftedPayloads({}) :
          (Joined(s) /\ Malformed(op) /\ StrokeComplete(s, op))
             => /\ rooms' = rooms
                /\ emitted' = <<>>]_vars

\* the rooms whose users Map holds connection s
RoomsHolding(s) == {r \in DOMAIN rooms : s \in rooms[r].users}

(***************************************************************************)
(* C27  Single-room membership: after every handler, a connection is among *)
(* the users of at most one room, and socket.io holds an open connection   *)
(* in no room but the one it joined last, so that io.to(r) messages        *)
(* (history, stroke-complete, users) of another room do not reach it.      *)
(***************************************************************************)
C27_SingleRoom ==
    \A s \in Sockets :
        /\ Cardinality(RoomsHolding(s)) <= 1
        /\ conn[s] = "open" => sioRooms[s] \subseteq {socketRoom[s]}

(***************************************************************************)
(* The page.  main.js makes one WebSocketClient per page; the socket does  *)
(* not connect before the first click on Join (autoConnect: false) and     *)
(* reconnects by itself after the transport closes (reconnection: true).   *)
(* A message the socket emits while it is not connected is buffered and    *)
(* sent once it is.                                                        *)
(***************************************************************************)
\* what a page's socket emits: the event, the join arguments, the segments
OutMsg(ev, room, name, data) == [ev |-> ev, room |-> room, name |-> name, data |-> data]

\* ws.joinRoom(room, name)
joinRoom(l) == OutMsg("join", l.room, l.name, <<>>)

\* the events the WebSocketClient listens to on its socket (socket.on); a
\* packet of any other event is dropped
Incoming ==
    {"pong-check", "history", "stroke", "stroke-complete", "cursor", "users",
     "undo", "redo", "snapshot"}

\* the click handler of joinBtn with what the two inputs hold: ws.connect()
\* opens the socket unless it is open, opening or reconnecting, and ws.on
\* adds one more "connection" listener, which holds this click's room and name
JoinClick(p, name, room) ==
    /\ IF name = "" \/ room = ""
       THEN UNCHANGED <<status, listeners>>
       ELSE /\ status' = [status EXCEPT ![p] = IF @ = "idle" THEN "connecting" ELSE @]
            /\ listeners' = [listeners EXCEPT ![p] = Append(@, [room |-> room, name |-> name])]
    /\ UNCHANGED <<sock, pendingBatch, batchInterval, outbox, inbox, preview, nextSeg>>
    /\ UNCHANGED svars

\* socket.on("connect"): the socket is one of the server's connections that
\* no page has; trigger("connection", {status: "connected"}) calls every
\* listener of the clicks, in the order in which they were added (the
\* listener of main.js that shows the status sends nothing)
OnConnect(p) ==
    /\ status[p] \in {"connecting", "disconnected"}
    /\ \E s \in Sockets :
          /\ conn[s] = "open" /\ socketRoom[s] = NoRoom
          /\ \A q \in Pages : sock[q] # s
          /\ sock' = [sock EXCEPT ![p] = s]
    /\ status' = [status EXCEPT ![p] = "connected"]
    /\ outbox' = [outbox EXCEPT ![p] =
                     @ \o [i \in 1..Len(listeners[p]) |-> joinRoom(listeners[p][i])]]
    /\ UNCHANGED <<listeners, pendingBatch, batchInterval, inbox, preview, nextSeg>>
    /\ UNCHANGED svars

\* the messages of msgs that reach connection s, as the page receives them;
\* a relayed event carries the data it was sent with
Arrivals(msgs, s, data) ==
    LET mine == SelectSeq(msgs, LAMBDA m : s \in m.to)
    IN [i \in 1..Len(mine) |-> [ev |-> mine[i].ev, data |-> data]]

\* the transport closes: the server runs its disconnect handler and the
\* socket its own (trigger("connection", {status: "disconnected"}) makes no
\* listener send anything); what was in flight either way is lost
Drop(p) ==
    /\ status[p] = "connected"
    /\ Disconnect(sock[p])
    /\ status' = [status EXCEPT ![p] = "disconnected"]
    /\ sock' = [sock EXCEPT ![p] = NoSocket]
    /\ outbox' = [outbox EXCEPT ![p] = <<>>]
    /\ inbox' = [q \in Pages |->
                    IF q = p THEN <<>> ELSE inbox[q] \o Arrivals(emitted', sock[q], <<>>)]
    /\ UNCHANGED <<listeners, pendingBatch, batchInterval, preview, nextSeg>>

\* canvas.on("stroke") of main.js: ws.emitStrokePoint(segment, batching) with
\* the segment the canvas produced and what batchMode holds
emitStrokePoint(p, batching) ==
    /\ IF ~batching
       THEN /\ outbox' = [outbox EXCEPT ![p] = Append(@, OutMsg("stroke", "", "", <<nextSeg>>))]
            /\ UNCHANGED <<pendingBatch, batchInterval>>
       ELSE /\ pendingBatch' = [pendingBatch EXCEPT ![p] = Append(@, nextSeg)]
            /\ batchInterval' = [batchInterval EXCEPT ![p] = TRUE]
            /\ UNCHANGED outbox
    /\ nextSeg' = nextSeg + 1
    /\ UNCHANGED <<status, sock, listeners, inbox, preview>>
    /\ UNCHANGED svars

\* the callback of the setInterval emitStrokePoint started, when it finds
\* segments pending
BatchTimer(p) ==
    /\ batchInterval[p]
    /\ pendingBatch[p] # <<>>
    /\ outbox' = [outbox EXCEPT ![p] = Append(@, OutMsg("stroke-batch", "", "", pendingBatch[p]))]
    /\ pendingBatch' = [pendingBatch EXCEPT ![p] = <<>>]
    /\ UNCHANGED <<status, sock, listeners, batchInterval, inbox, preview, nextSeg>>
    /\ UNCHANGED svars

\* the server handles the oldest message of page p: its handler runs and
\* what it emits is on its way to the pages of the connections it names
ServerHandles(p) ==
    /\ status[p] = "connected"
    /\ outbox[p] # <<>>
    /\ LET m == Head(outbox[p])
       IN /\ \/ m.ev = "join" /\ Join(sock[p], m.room)
             \/ m.ev = "stroke" /\ Stroke(sock[p])
             \/ m.ev = "stroke-batch" /\ StrokeBatch(sock[p])
          /\ inbox' = [q \in Pages |-> inbox[q] \o Arrivals(emitted', sock[q], m.data)]
    /\ outbox' = [outbox EXCEPT ![p] = Tail(@)]
    /\ UNCHANGED <<status, sock, listeners, pendingBatch, batchInterval, preview, nextSeg>>

\* page p handles the oldest message emitted to it: the socket.on handler
\* of the event, if there is one, triggers the listeners of main.js;
\* ws.on("stroke") hands the segment to canvas.drawTemp, and the listeners
\* of the other events leave the preview alone
PageHandles(p) ==
    /\ status[p] = "connected"
    /\ inbox[p] # <<>>
    /\ LET m == Head(inbox[p])
       IN preview' = [preview EXCEPT ![p] =
                         IF m.ev \in Incoming /\ m.ev = "stroke" THEN @ \o m.data ELSE @]
    /\ inbox' = [inbox EXCEPT ![p] = Tail(@)]
    /\ UNCHANGED <<status, sock, listeners, pendingBatch, batchInterval, outbox, nextSeg>>
    /\ UNCHANGED svars

\* the clicks made so far on the pages of S, and on all pages together
RECURSIVE ClicksOn(_)
ClicksOn(S) ==
    IF S = {} THEN 0
    ELSE LET p == CHOOSE x \in S : TRUE
         IN Len(listeners[p]) + ClicksOn(S \ {p})

Clicks == ClicksOn(Pages)

\* pages of the repository, their users clicking Join and drawing
NextClient ==
    \/ \E p \in Pages, name \in UserNames \cup {""}, room \in RoomIds \cup {""} :
          Clicks < MaxClicks /\ JoinClick(p, name, room)
    \/ \E p \in Pages : OnConnect(p)
    \/ \E p \in Pages : Drop(p)
    \/ \E p \in Pages, batching \in BOOLEAN :
          nextSeg <= MaxSegments /\ emitStrokePoint(p, batching)
    \/ \E p \in Pages : BatchTimer(p)
    \/ \E p \in Pages : ServerHandles(p)
    \/ \E p \in Pages : PageHandles(p)

SpecClient == Init /\ [][NextClient]_vars

(***************************************************************************)
(* C28  One join per connection: whatever clicks, connects and reconnects  *)
(* came before, a connect event of a page makes its socket emit exactly    *)
(* one join message, with the room and the username of the page's most     *)
(* recent click on Join.                                                   *)
(***************************************************************************)
C28_OneJoinPerConnect ==
    [][\A p \in Pages :
          OnConnect(p) =>
             outbox'[p] = Append(outbox[p], joinRoom(listeners[p][Len(listeners[p])]))]_vars

\* pages of the repository in one room (every click names r1), drawing, on
\* connections that stay up
NextPreview ==
    \/ \E p \in Pages, name \in UserNames :
          Clicks < MaxClicks /\ JoinClick(p, name, "r1")
    \/ \E p \in Pages : OnConnect(p)
    \/ \E p \in Pages, batching \in BOOLEAN :
          nextSeg <= MaxSegments /\ emitStrokePoint(p, batching)
    \/ \E p \in Pages : BatchTimer(p)
    \/ \E p \in Pages : ServerHandles(p)
    \/ \E p \in Pages : PageHandles(p)

\* the interval timer fires, and delivery is reliable: a message emitted on
\* a connection that stays up is handled by the other end
FairPreview ==
    \A p \in Pages :
        /\ WF_vars(BatchTimer(p))
        /\ WF_vars(ServerHandles(p))
        /\ WF_vars(PageHandles(p))

SpecPreview == Init /\ [][NextPreview]_vars /\ FairPreview

\* the server has handled a join of page p and of page q for one room, and
\* p's messages go to that room
Together(p, q) ==
    /\ status[p] = "connected" /\ status[q] = "connected"
    /\ socketRoom[sock[p]] # NoRoom
    /\ socketRoom[sock[p]] \in sioRooms[sock[q]]

(***************************************************************************)
(* C29  Batched previews reach peers: a segment that emitStrokePoint took  *)
(* in batch mode on page p, while page q is in p's room, is eventually     *)
(* handed to canvas.drawTemp on page q (the listener of the live-stroke    *)
(* preview), given reliable delivery.                                      *)
(***************************************************************************)
C29_BatchedPreviews ==
    \A p \in Pages, q \in Pages, g \in 1..MaxSegments :
        (p # q /\ Together(p, q) /\ g \in Range(pendingBatch[p]))
           ~> (g \in Range(preview[q]))

====
